---- MODULE Spec2Model ----
(***************************************************************************)
(* chrono_gpst: conversion between chrono DateTime<Utc> and GPS Standard   *)
(* Time (src/src/lib.rs).                                                  *)
(*                                                                         *)
(* The library computes in i64 nanoseconds and in f64.  Both are wider     *)
(* than the integers of the model checker, so the model carries its own    *)
(* arithmetic: natural numbers are little-endian sequences of limbs in     *)
(* base 2^15, integers are a sign and a magnitude, an i64 is an integer    *)
(* in [-2^63, 2^63), and an f64 is a sign, a mantissa and a binary         *)
(* exponent, rounded to 53 significant bits, ties to even, after every     *)
(* operation, as IEEE 754 binary64 does.                                   *)
(***************************************************************************)
EXTENDS Integers, Sequences, FiniteSets, TLC

(***************************************************************************)
(* Natural numbers of any size.                                            *)
(***************************************************************************)
\* The powers of two up to the base of the limbs.
PowersOfTwo ==
    <<1, 2, 4, 8, 16, 32, 64, 128, 256, 512, 1024, 2048, 4096, 8192, 16384,
      32768>>

\* 2^k for k in 0..15.
Pow2(k) == PowersOfTwo[k + 1]

LimbBits == Len(PowersOfTwo) - 1

LimbBase == Pow2(LimbBits)

\* F of the value of v, which is computed first and once: let x = v; F(x).
Let(v, F(_)) == CHOOSE y \in {F(x) : x \in {v}} : TRUE

RECURSIVE NNorm(_)
NNorm(a) ==
    IF Len(a) = 0 THEN a
    ELSE IF a[Len(a)] = 0 THEN NNorm(SubSeq(a, 1, Len(a) - 1)) ELSE a

RECURSIVE NFromInt(_)
NFromInt(n) ==
    IF n = 0 THEN << >> ELSE <<n % LimbBase>> \o NFromInt(n \div LimbBase)

Limb(a, i) == IF i <= Len(a) THEN a[i] ELSE 0

RECURSIVE NAddRec(_, _, _, _)
NAddRec(a, b, i, c) ==
    IF i > Len(a) /\ i > Len(b)
    THEN IF c = 0 THEN << >> ELSE <<c>>
    ELSE LET s == Limb(a, i) + Limb(b, i) + c
         IN  <<s % LimbBase>> \o NAddRec(a, b, i + 1, s \div LimbBase)

NAdd(a, b) == NAddRec(a, b, 1, 0)

\* -1, 0 or 1 as a < b, a = b or a > b.
RECURSIVE NCmpRec(_, _, _)
NCmpRec(a, b, i) ==
    IF i = 0 THEN 0
    ELSE IF a[i] < b[i] THEN -1
    ELSE IF a[i] > b[i] THEN 1
    ELSE NCmpRec(a, b, i - 1)

NCmp(a, b) ==
    IF Len(a) < Len(b) THEN -1
    ELSE IF Len(a) > Len(b) THEN 1
    ELSE NCmpRec(a, b, Len(a))

\* a - b, for a >= b.
RECURSIVE NSubRec(_, _, _, _)
NSubRec(a, b, i, c) ==
    IF i > Len(a) THEN << >>
    ELSE LET d == a[i] - Limb(b, i) - c
         IN  IF d < 0
             THEN <<d + LimbBase>> \o NSubRec(a, b, i + 1, 1)
             ELSE <<d>> \o NSubRec(a, b, i + 1, 0)

NSub(a, b) == NNorm(NSubRec(a, b, 1, 0))

\* a * k, for a limb k.
RECURSIVE NMulSmallRec(_, _, _, _)
NMulSmallRec(a, k, i, c) ==
    IF i > Len(a)
    THEN IF c = 0 THEN << >> ELSE <<c>>
    ELSE LET p == a[i] * k + c
         IN  <<p % LimbBase>> \o NMulSmallRec(a, k, i + 1, p \div LimbBase)

NMulSmall(a, k) == IF k = 0 THEN << >> ELSE NMulSmallRec(a, k, 1, 0)

Zeros(n) == [i \in 1..n |-> 0]

RECURSIVE NMulRec(_, _, _)
NMulRec(a, b, i) ==
    IF i > Len(b) THEN << >>
    ELSE NAdd(IF b[i] = 0 THEN << >> ELSE Zeros(i - 1) \o NMulSmall(a, b[i]),
              NMulRec(a, b, i + 1))

NMul(a, b) == IF Len(a) = 0 \/ Len(b) = 0 THEN << >> ELSE NMulRec(a, b, 1)

\* floor(a / d), for a limb d > 0, from the top limb down; r is the running
\* remainder.
RECURSIVE NDivSmallRec(_, _, _, _)
NDivSmallRec(a, d, i, r) ==
    IF i = 0 THEN << >>
    ELSE LET cur == r * LimbBase + a[i]
         IN  NDivSmallRec(a, d, i - 1, cur % d) \o <<cur \div d>>

NDivSmall(a, d) == NNorm(NDivSmallRec(a, d, Len(a), 0))

NShl(a, k) ==
    IF Len(a) = 0 THEN a
    ELSE Zeros(k \div LimbBits) \o NMulSmall(a, Pow2(k % LimbBits))

NShr(a, k) ==
    IF k \div LimbBits >= Len(a) THEN << >>
    ELSE NDivSmall(SubSeq(a, (k \div LimbBits) + 1, Len(a)), Pow2(k % LimbBits))

RECURSIVE IntBitLen(_)
IntBitLen(n) == IF n = 0 THEN 0 ELSE 1 + IntBitLen(n \div 2)

NBitLen(a) ==
    IF Len(a) = 0 THEN 0 ELSE LimbBits * (Len(a) - 1) + IntBitLen(a[Len(a)])

\* Bit i (from 0) of a.
NBit(a, i) == (Limb(a, (i \div LimbBits) + 1) \div Pow2(i % LimbBits)) % 2

NIsZero(a) == Len(a) = 0

\* The largest limb d with d * b <= r, for r < b * 2^15 and the top limb of
\* b at least 2^14: d is the estimate or one or two below it (Knuth's
\* algorithm D).
RECURSIVE QuotientLimb(_, _, _)
QuotientLimb(r, b, d) ==
    IF NCmp(NMulSmall(b, d), r) <= 0 THEN d ELSE QuotientLimb(r, b, d - 1)

\* The two top limbs of r, counted against the n limbs of b, over the top
\* limb of b.
QuotientEstimate(r, b, n) ==
    LET e == (Limb(r, n + 1) * LimbBase + Limb(r, n)) \div b[n]
    IN  IF e > LimbBase - 1 THEN LimbBase - 1 ELSE e

\* Long division, limb by limb from the top.  NDivModStep takes the quotient
\* q and the remainder r of the limbs above limb and gives those with limb
\* taken in: d is the next limb of the quotient.
NDivModStep(q, r, b) ==
    Let(QuotientLimb(r, b, QuotientEstimate(r, b, Len(b))), LAMBDA d :
        << <<d>> \o q, NSub(r, NMulSmall(b, d)) >>)

\* <<floor(a' / b), a' mod b>> for a' the limbs i and up of a.
RECURSIVE NDivModRec(_, _, _)
NDivModRec(a, b, i) ==
    IF i > Len(a) THEN << << >>, << >> >>
    ELSE Let(NDivModRec(a, b, i + 1), LAMBDA above :
             NDivModStep(above[1], NNorm(<<a[i]>> \o above[2]), b))

\* Both operands are shifted left by s bits, which brings the top limb of b
\* to 2^14 or more and leaves the quotient as it is.
NDivModShifted(a, b, s) ==
    Let(NMulSmall(a, Pow2(s)), LAMBDA sa :
    Let(NMulSmall(b, Pow2(s)), LAMBDA sb :
    Let(NDivModRec(sa, sb, 1), LAMBDA qr :
        <<NNorm(qr[1]), NShr(qr[2], s)>>)))

\* <<floor(a / b), a mod b>> for b > 0.
NDivMod(a, b) == NDivModShifted(a, b, LimbBits - IntBitLen(b[Len(b)]))

(***************************************************************************)
(* Integers of any size: a sign and a magnitude, zero never negative.      *)
(***************************************************************************)
Z(neg, mag) == [neg |-> neg /\ Len(mag) > 0, mag |-> mag]

ZFromInt(n) == IF n < 0 THEN Z(TRUE, NFromInt(-n)) ELSE Z(FALSE, NFromInt(n))

ZZero == Z(FALSE, << >>)

ZNeg(a) == Z(~a.neg, a.mag)

ZAdd(a, b) ==
    IF a.neg = b.neg THEN Z(a.neg, NAdd(a.mag, b.mag))
    ELSE IF NCmp(a.mag, b.mag) >= 0 THEN Z(a.neg, NSub(a.mag, b.mag))
    ELSE Z(b.neg, NSub(b.mag, a.mag))

ZSub(a, b) == ZAdd(a, ZNeg(b))

ZMul(a, b) == Z(a.neg # b.neg, NMul(a.mag, b.mag))

ZLess(a, b) ==
    IF a.neg # b.neg THEN a.neg
    ELSE IF a.neg THEN NCmp(a.mag, b.mag) > 0
    ELSE NCmp(a.mag, b.mag) < 0

ZLeq(a, b) == a = b \/ ZLess(a, b)

\* Division truncating toward zero, as Rust's / on integers.
ZDivTrunc(a, b) == Z(a.neg # b.neg, NDivMod(a.mag, b.mag)[1])

(***************************************************************************)
(* i64.  Rust checks +, - and * for overflow when the build has            *)
(* overflow-checks on (the debug profile) and the thread then panics;      *)
(* with them off (the release profile) the result wraps modulo 2^64.  An   *)
(* i64 operation gives [ok |-> FALSE] for the panic, or the value.         *)
(***************************************************************************)
Two63 == NShl(<<1>>, 63)

Two64 == NShl(<<1>>, 64)

I64_MIN == Z(TRUE, Two63)

I64_MAX == Z(FALSE, NSub(Two63, <<1>>))

InI64(z) == ZLeq(I64_MIN, z) /\ ZLeq(z, I64_MAX)

Wrap64(z) ==
    IF InI64(z) THEN z
    ELSE IF z.neg THEN ZAdd(z, Z(FALSE, Two64))
    ELSE ZSub(z, Z(FALSE, Two64))

I64Result(z, oc) ==
    IF InI64(z) THEN [ok |-> TRUE, v |-> z]
    ELSE IF oc THEN [ok |-> FALSE, v |-> ZZero]
    ELSE [ok |-> TRUE, v |-> Wrap64(z)]

I64Add(a, b, oc) == I64Result(ZAdd(a, b), oc)

I64Sub(a, b, oc) == I64Result(ZSub(a, b), oc)

(***************************************************************************)
(* f64: the finite values, [neg, man, exp] standing for (-1)^neg * man *   *)
(* 2^exp with man odd, or zero.  Every magnitude the library computes is   *)
(* zero or lies between 2^-1022 and 2^1023, so neither subnormals nor      *)
(* infinities arise; -0.0 equals 0.0 and is not kept apart.                *)
(***************************************************************************)
MantissaBits == 53

RECURSIVE IntTrailingZeros(_)
IntTrailingZeros(n) == IF n % 2 = 1 THEN 0 ELSE 1 + IntTrailingZeros(n \div 2)

RECURSIVE ZeroLimbs(_, _)
ZeroLimbs(a, i) == IF a[i] # 0 THEN i - 1 ELSE ZeroLimbs(a, i + 1)

\* The number of trailing zero bits of a > 0.
NTrailingZeros(a) ==
    LET z == ZeroLimbs(a, 1)
    IN  LimbBits * z + IntTrailingZeros(a[z + 1])

FNorm(neg, man, exp) ==
    IF Len(man) = 0 THEN [neg |-> FALSE, man |-> << >>, exp |-> 0]
    ELSE Let(NTrailingZeros(man), LAMBDA t :
             [neg |-> neg, man |-> NShr(man, t), exp |-> exp + t])

\* The f64 nearest to (-1)^neg * man * 2^exp, ties to the even mantissa.
\* q is man without its low k bits and c compares those bits with half.
FRoundUp(neg, q, exp, c) ==
    Let(IF c > 0 \/ (c = 0 /\ NBit(q, 0) = 1) THEN NAdd(q, <<1>>) ELSE q,
        LAMBDA up : FNorm(neg, up, exp))

FRoundCut(neg, man, exp, k, q) ==
    Let(NCmp(NSub(man, NShl(q, k)), NShl(<<1>>, k - 1)), LAMBDA c :
        FRoundUp(neg, q, exp + k, c))

FRoundBits(neg, man, exp, k) ==
    IF k <= 0 THEN FNorm(neg, man, exp)
    ELSE Let(NShr(man, k), LAMBDA q : FRoundCut(neg, man, exp, k, q))

FRound(neg, man, exp) ==
    Let(man, LAMBDA m : FRoundBits(neg, m, exp, NBitLen(m) - MantissaBits))

FZero == FNorm(FALSE, << >>, 0)

\* `n as f64` for an integer n.
FFromZ(z) == FRound(z.neg, z.mag, 0)

FFromInt(n) == FFromZ(ZFromInt(n))

FMul(a, b) == FRound(a.neg # b.neg, NMul(a.man, b.man), a.exp + b.exp)

\* The f64 nearest to z * 2^e.
FScaled(z, e) == FRound(z.neg, z.mag, e)

\* The integer x / 2^e, for e <= x.exp.
ZScaled(x, e) == Z(x.neg, NShl(x.man, x.exp - e))

FAddAt(a, b, e) == FScaled(ZAdd(ZScaled(a, e), ZScaled(b, e)), e)

FAdd(a, b) == FAddAt(a, b, IF a.exp < b.exp THEN a.exp ELSE b.exp)

\* a / b for b # 0: the quotient to at least 55 bits, and one more bit that
\* is set when the division left a remainder, then rounded.
FQuotient(neg, qr, exp) ==
    Let(NAdd(NMulSmall(qr[1], 2), IF NIsZero(qr[2]) THEN << >> ELSE <<1>>),
        LAMBDA man : FRound(neg, man, exp))

FDivShifted(a, b, k) ==
    Let(NDivMod(NShl(a.man, k), b.man), LAMBDA qr :
        FQuotient(a.neg # b.neg, qr, a.exp - b.exp - k - 1))

FDiv(a, b) ==
    IF Len(a.man) = 0 THEN FZero
    ELSE Let(MantissaBits + 2 + NBitLen(b.man) - NBitLen(a.man), LAMBDA d :
             FDivShifted(a, b, IF d > 0 THEN d ELSE 0))

Saturate(z) ==
    IF ZLess(z, I64_MIN) THEN I64_MIN
    ELSE IF ZLess(I64_MAX, z) THEN I64_MAX
    ELSE z

\* `x as i64` for an f64 x: truncated toward zero, saturating at the ends.
FToI64(x) ==
    IF Len(x.man) = 0 THEN ZZero
    ELSE IF x.exp < 0 THEN Z(x.neg, NShr(x.man, -x.exp))
    ELSE IF NBitLen(x.man) + x.exp > 64
         THEN (IF x.neg THEN I64_MIN ELSE I64_MAX)
    ELSE Saturate(Z(x.neg, NShl(x.man, x.exp)))

(***************************************************************************)
(* chrono's DateTime<Utc>, the part the library uses: an instant is its    *)
(* count of nanoseconds since the Unix epoch, of any size the type holds   *)
(* (chrono's years run far past the i64 nanosecond range, which ends in    *)
(* 1677 and 2262).                                                         *)
(***************************************************************************)
Some(v) == [some |-> TRUE, v |-> v]

None == [some |-> FALSE, v |-> ZZero]

\* DateTime::timestamp_nanos_opt: None when the count does not fit an i64.
timestamp_nanos_opt(self) == IF InI64(self) THEN Some(self) ELSE None

\* DateTime::from_timestamp_nanos: total on i64.
from_timestamp_nanos(nanos) == nanos

(***************************************************************************)
(* The library.                                                            *)
(***************************************************************************)
TO_NANO_INT == 1000000000

ToNanoInt == ZFromInt(TO_NANO_INT)

WeekSeconds == 604800

GPS_EPOCH == ZMul(ZFromInt(315964800), ToNanoInt)

TO_NANO_FLOAT == FFromInt(TO_NANO_INT)

SECONDS_PER_WEEK == FFromInt(WeekSeconds)

NANOSECONDS_PER_WEEK == FMul(SECONDS_PER_WEEK, TO_NANO_FLOAT)

LEAP_SECONDS ==
    << 46828800, 78364801, 109900802, 173059203, 252028804, 315187205,
       346723206, 393984007, 425520008, 457056009, 504489610, 551750411,
       599184012, 820108813, 914803214, 1025136015, 1119744016, 1167264017 >>

\* Results: Ok(v), Err(kind, instant) and the panic of an overflow check.
Ok(v) == [tag |-> "Ok", val |-> v]

Err(kind, instant) == [tag |-> "Err", val |-> [kind |-> kind, instant |-> instant]]

Panic == [tag |-> "Panic", val |-> [kind |-> "overflow", instant |-> ZZero]]

\* The test of line 132 with its operands exchanged: the entries after the
\* timestamp are counted instead of those before it.
LeapCountsAfter(leap_second, gps_nanoseconds) ==
    ZLess(gps_nanoseconds, ZMul(ZFromInt(leap_second), ToNanoInt))

\* One pass of the loop of num_leaps over LEAP_SECONDS[i].
LeapCounts(leap_second, gps_nanoseconds) ==
    ZLess(ZMul(ZFromInt(leap_second), ToNanoInt), gps_nanoseconds)

\* The number of table entries the loop of num_leaps counts.
LeapCount(gps_nanoseconds) ==
    Cardinality({i \in 1..Len(LEAP_SECONDS) :
                    LeapCounts(LEAP_SECONDS[i], gps_nanoseconds)})

\* fn num_leaps: TO_NANO_INT for every entry counted (at most 18 * 10^9: no
\* overflow).
num_leaps(gps_nanoseconds) ==
    ZMul(ZFromInt(LeapCount(gps_nanoseconds)), ToNanoInt)

\* fn from_gpst_seconds, with oc the build's overflow checks.
from_gpst_seconds(seconds, leap_seconds, oc) ==
    Let(FToI64(FMul(seconds, TO_NANO_FLOAT)), LAMBDA cast :
    Let(IF leap_seconds THEN I64Sub(cast, num_leaps(cast), oc)
        ELSE [ok |-> TRUE, v |-> cast], LAMBDA nanoseconds :
        IF ~nanoseconds.ok THEN Panic
        ELSE Let(I64Add(nanoseconds.v, GPS_EPOCH, oc), LAMBDA sum :
                 IF ~sum.ok THEN Panic
                 ELSE Ok(from_timestamp_nanos(sum.v)))))

\* fn from_gpst.
from_gpst(week, week_seconds, leap_seconds, oc) ==
    Let(FAdd(FMul(FFromZ(week), SECONDS_PER_WEEK), week_seconds),
        LAMBDA gps_seconds : from_gpst_seconds(gps_seconds, leap_seconds, oc))

\* fn gpst of impl GpstLike for DateTime<Utc>.  The test nanoseconds < 0 of
\* line 80 builds an error value and drops it: the statement has no effect,
\* and control goes on to line 83 whatever the sign.
gpst(self, leap_seconds, oc) ==
    Let(timestamp_nanos_opt(self), LAMBDA timestamp_nanos :
    IF ~timestamp_nanos.some THEN Err("TimestampNano", self)
    ELSE
    Let(I64Sub(timestamp_nanos.v, GPS_EPOCH, oc), LAMBDA delta :
    IF ~delta.ok THEN Panic
    ELSE
    Let(IF leap_seconds THEN I64Add(delta.v, num_leaps(delta.v), oc)
        ELSE delta, LAMBDA nanoseconds :
    IF ~nanoseconds.ok THEN Panic
    ELSE
    Let(FDiv(FFromZ(nanoseconds.v), NANOSECONDS_PER_WEEK), LAMBDA week :
    Let(from_gpst(FToI64(week), FZero, leap_seconds, oc), LAMBDA week_start :
    IF week_start.tag # "Ok" THEN week_start
    ELSE
    Let(timestamp_nanos_opt(week_start.val),
        LAMBDA week_start_timestamp_nanos :
    IF ~week_start_timestamp_nanos.some
    THEN Err("TimestampNano", week_start.val)
    ELSE
    Let(I64Sub(timestamp_nanos.v, week_start_timestamp_nanos.v, oc),
        LAMBDA diff :
    IF ~diff.ok THEN Panic
    ELSE Ok([seconds      |-> FFromZ(ZDivTrunc(nanoseconds.v, ToNanoInt)),
             week         |-> FToI64(week),
             week_seconds |-> FDiv(FFromZ(diff.v), TO_NANO_FLOAT)]))))))))

(***************************************************************************)
(* A caller.  It calls one of the three public functions, or num_leaps,    *)
(* with an argument drawn from the sets below, and may then feed the       *)
(* result to the inverse function (gpst then from_gpst, from_gpst_seconds  *)
(* then gpst) or query num_leaps a second time.                            *)
(***************************************************************************)
\* Seconds examined on each side of a point of interest.
Window == 2

\* Nanoseconds from a Unix count of a * 10^9 + b seconds and c nanoseconds.
ZNanos(a, b, c) ==
    ZAdd(ZMul(ZAdd(ZMul(ZFromInt(a), ToNanoInt), ZFromInt(b)), ToNanoInt),
         ZFromInt(c))

\* The instant s seconds and n nanoseconds after the GPS Epoch.
AfterEpoch(s, n) == ZAdd(GPS_EPOCH, ZNanos(0, s, n))

Around(S) == UNION {(p - Window)..(p + Window) : p \in S}

WeekStartOf(s) == (s \div WeekSeconds) * WeekSeconds

LeapIndex == 1..Len(LEAP_SECONDS)

\* The table entries whose surroundings are examined second by second: the
\* first (1981), the one before the example (1999) and the last (2017).
Examined == {1, 13, 18}

\* 2005-01-28T13:30:00Z, the instant of the crate's example and tests.
ExampleDelta == 790954200

\* Whole seconds since the GPS Epoch: the epoch, the example, and for every
\* examined entry the entry, the UTC midnight that follows its leap second
\* (entry i less i - 1) and the two ends of its GPS week.
PointsOfInterest ==
    {0, ExampleDelta}
    \cup {LEAP_SECONDS[i] : i \in Examined}
    \cup {LEAP_SECONDS[i] - (i - 1) : i \in Examined}
    \cup {WeekStartOf(LEAP_SECONDS[i]) : i \in Examined}
    \cup {WeekStartOf(LEAP_SECONDS[i]) + WeekSeconds : i \in Examined}

DeltaSeconds == Around(PointsOfInterest)

\* Instants with a sub-second part: around the epoch, the example and a week
\* boundary, a nanosecond, half a second and a second less a nanosecond in.
SubSecond == {1, 500000000, 999999999}

SubSecondSeconds ==
    Around({0}) \cup {ExampleDelta, WeekStartOf(ExampleDelta) - 1}

\* Instants at the ends of the i64 nanosecond range and past them: the last
\* whole second in range, the ends, one nanosecond outside either end, the
\* first instants whose delta from the GPS Epoch fits and does not fit an
\* i64, and the year 3000.
EdgeInstants ==
    { ZNanos(9, 223372036, 0), I64_MAX, I64_MIN,
      ZAdd(I64_MAX, ZFromInt(1)), ZSub(I64_MIN, ZFromInt(1)),
      ZAdd(I64_MIN, GPS_EPOCH), ZSub(ZAdd(I64_MIN, GPS_EPOCH), ZFromInt(1)),
      ZNanos(32, 503680000, 0) }

Instants ==
    {AfterEpoch(s, 0) : s \in DeltaSeconds}
    \cup {AfterEpoch(s, n) : s \in SubSecondSeconds, n \in SubSecond}
    \cup EdgeInstants

\* f64 seconds for from_gpst_seconds: the whole seconds above, halves, the
\* last second whose instant fits the i64 range, and values past it.
Half == FDiv(FFromInt(1), FFromInt(2))

SecondsArgs ==
    {FFromInt(s) : s \in DeltaSeconds}
    \cup {FAdd(FFromInt(s), Half) : s \in {0, ExampleDelta}}
    \cup {FFromZ(ZNanos(0, 9, 223372036)), FFromZ(ZNanos(0, 8, 907407236)),
          FFromZ(ZNanos(0, 10, 0)), FFromZ(ZNeg(ZNanos(0, 10, 0)))}

\* Weeks and seconds of the week for from_gpst: week 77 holds the first
\* table entry at second 259200, week 1307 the example; weeks 15251 and up
\* lie past the i64 nanosecond range.
WeekArgs ==
    {ZFromInt(w) : w \in {-1, 0, 77, 1307, 15251, 20000}} \cup {I64_MAX}

WeekSecondsArgs ==
    {FFromInt(s) : s \in Around({259200}) \cup
                         {-1, 0, 480613, WeekSeconds - 1, WeekSeconds, 700000}}
    \cup {Half}

\* i64 nanoseconds for num_leaps: every entry, to the nanosecond on either
\* side; around zero; the ends of i64.
LeapArgs ==
    {ZNanos(0, LEAP_SECONDS[i], n) : i \in LeapIndex, n \in {-1, 0, 1}}
    \cup {ZFromInt(n) : n \in (-Window)..Window}
    \cup {I64_MIN, I64_MAX}

VARIABLES
    overflow_checks,   \* the build: arithmetic overflow panics, or wraps
    pc,                \* "idle", "returned", "returned2"
    call, ret,         \* the first call and what it returned
    call2, ret2        \* the follow-up call and what it returned

vars == <<overflow_checks, pc, call, ret, call2, ret2>>

NoCall == [op |-> "none"]

NoResult == [tag |-> "none"]

Init ==
    /\ overflow_checks \in BOOLEAN
    /\ pc = "idle"
    /\ call = NoCall /\ ret = NoResult
    /\ call2 = NoCall /\ ret2 = NoResult

First(c, r) ==
    /\ pc' = "returned"
    /\ call' = c /\ ret' = r
    /\ UNCHANGED <<overflow_checks, call2, ret2>>

Second(c, r) ==
    /\ pc' = "returned2"
    /\ call2' = c /\ ret2' = r
    /\ UNCHANGED <<overflow_checks, call, ret>>

CallGpst ==
    /\ pc = "idle"
    /\ \E t \in Instants, f \in BOOLEAN :
        First([op |-> "gpst", t |-> t, leap_seconds |-> f],
              gpst(t, f, overflow_checks))

CallFromGpstSeconds ==
    /\ pc = "idle"
    /\ \E s \in SecondsArgs, f \in BOOLEAN :
        First([op |-> "from_gpst_seconds", seconds |-> s, leap_seconds |-> f],
              from_gpst_seconds(s, f, overflow_checks))

CallFromGpst ==
    /\ pc = "idle"
    /\ \E w \in WeekArgs, ws \in WeekSecondsArgs, f \in BOOLEAN :
        First([op |-> "from_gpst", week |-> w, week_seconds |-> ws,
               leap_seconds |-> f],
              from_gpst(w, ws, f, overflow_checks))

CallNumLeaps ==
    /\ pc = "idle"
    /\ \E x \in LeapArgs :
        First([op |-> "num_leaps", x |-> x], Ok(num_leaps(x)))

\* The Gpst that gpst returned goes back through from_gpst, same flag.
ThenFromGpst ==
    /\ pc = "returned"
    /\ call.op = "gpst" /\ ret.tag = "Ok"
    /\ Second([op |-> "from_gpst", week |-> ret.val.week,
               week_seconds |-> ret.val.week_seconds,
               leap_seconds |-> call.leap_seconds],
              from_gpst(ret.val.week, ret.val.week_seconds, call.leap_seconds,
                        overflow_checks))

\* The instant that from_gpst_seconds returned goes back through gpst.
ThenGpst ==
    /\ pc = "returned"
    /\ call.op = "from_gpst_seconds" /\ ret.tag = "Ok"
    /\ Second([op |-> "gpst", t |-> ret.val, leap_seconds |-> call.leap_seconds],
              gpst(ret.val, call.leap_seconds, overflow_checks))

ThenNumLeaps ==
    /\ pc = "returned"
    /\ call.op = "num_leaps"
    /\ \E y \in LeapArgs :
           Second([op |-> "num_leaps", x |-> y], Ok(num_leaps(y)))

\* The caller is done with the results (after a panic: a new process).
Reset ==
    /\ pc # "idle"
    /\ pc' = "idle"
    /\ call' = NoCall /\ ret' = NoResult
    /\ call2' = NoCall /\ ret2' = NoResult
    /\ UNCHANGED overflow_checks

Next ==
    \/ CallGpst
    \/ CallFromGpstSeconds
    \/ CallFromGpst
    \/ CallNumLeaps
    \/ ThenFromGpst
    \/ ThenGpst
    \/ ThenNumLeaps
    \/ Reset

Spec == Init /\ [][Next]_vars

(***************************************************************************)
(* The properties.  They are stated over the calls made and what each      *)
(* returned, with exact arithmetic on the integers and on the f64 values   *)
(* (every finite f64 is an integer times a power of two).                  *)
(***************************************************************************)
Calls == {<<call, ret>>, <<call2, ret2>>}

CallsOf(op) == {cr \in Calls : cr[1].op = op}

\* floor(a / b) for b > 0.
FloorOf(neg, qr) ==
    IF neg /\ ~NIsZero(qr[2])
    THEN Z(TRUE, NAdd(qr[1], <<1>>))
    ELSE Z(neg, qr[1])

ZDivFloor(a, b) == FloorOf(a.neg, NDivMod(a.mag, b.mag))

\* a < b for f64 a and b.
FLessAt(a, b, e) == ZLess(ZScaled(a, e), ZScaled(b, e))

FLess(a, b) == FLessAt(a, b, IF a.exp < b.exp THEN a.exp ELSE b.exp)

\* z * 2^k for k >= 0.
ZShl(z, k) == Z(z.neg, NShl(z.mag, k))

\* The f64 x is exactly the integer z.
FIsExactly(x, z) == x.exp >= 0 /\ ZScaled(x, 0) = z

\* The instant t falls on a whole second.
WholeSecond(t) == NIsZero(NDivMod(t.mag, ToNanoInt.mag)[2])

\* The leap nanoseconds elapsed by x nanoseconds after the GPS Epoch, as
\* the design has them: one second for every table entry at or before x.
LeapsElapsed(x) ==
    ZMul(ZFromInt(Cardinality({i \in LeapIndex :
                      ZLeq(ZMul(ZFromInt(LEAP_SECONDS[i]), ToNanoInt), x)})),
         ToNanoInt)

\* The nanoseconds from the GPS Epoch to t, with the leap nanoseconds added
\* when f is set.
AdjustedDelta(t, f) ==
    ZAdd(ZSub(t, GPS_EPOCH),
         IF f THEN LeapsElapsed(ZSub(t, GPS_EPOCH)) ELSE ZZero)

\* The whole nanoseconds of the f64 seconds x, truncated toward zero.
NanosOf(x) ==
    IF x.exp >= 0 THEN ZMul(ZScaled(x, 0), ToNanoInt)
    ELSE Z(x.neg, NShr(NMul(x.man, ToNanoInt.mag), -x.exp))

\* The instant that x nanoseconds of GPS Standard Time stand for: the GPS
\* Epoch plus x, less the leap nanoseconds elapsed by x when f is set.
InstantOf(x, f) ==
    ZAdd(GPS_EPOCH, ZSub(x, IF f THEN LeapsElapsed(x) ELSE ZZero))

\* week * 604800 + week_seconds as an f64, from the exact sum.
TotalSeconds(week, week_seconds) ==
    IF week_seconds.exp >= 0
    THEN FFromZ(ZAdd(ZMul(week, ZFromInt(WeekSeconds)),
                     ZScaled(week_seconds, 0)))
    ELSE FScaled(ZAdd(ZShl(ZMul(week, ZFromInt(WeekSeconds)),
                           -week_seconds.exp),
                      ZScaled(week_seconds, week_seconds.exp)),
                 week_seconds.exp)

\* C1: an instant at or after the GPS Epoch that went through gpst and
\* whose week and week_seconds went back through from_gpst with the same
\* flag comes back as the same instant.
C1_RoundTrip ==
    (pc = "returned2" /\ call.op = "gpst" /\ ZLeq(GPS_EPOCH, call.t))
        => ret2 = Ok(call.t)

\* C2: gpst of an instant whose delta from the GPS Epoch, leap adjustment
\* included, is negative returns the BeforeGPSEpoch error, and gpst never
\* returns Ok with negative seconds.
C2_BeforeEpochRejected ==
    \A cr \in CallsOf("gpst") :
        /\ ZLess(AdjustedDelta(cr[1].t, cr[1].leap_seconds), ZZero)
               => cr[2] = Err("BeforeGPSEpoch", cr[1].t)
        /\ cr[2].tag = "Ok" => ~cr[2].val.seconds.neg

\* week * 604800 + week_seconds = seconds, exactly, at the scale 2^e.
AdditiveAt(g, e) ==
    ZAdd(ZShl(ZMul(g.week, ZFromInt(WeekSeconds)), -e),
         ZScaled(g.week_seconds, e))
        = ZScaled(g.seconds, e)

Additive(g) ==
    AdditiveAt(g, IF g.week_seconds.exp < g.seconds.exp
                  THEN (IF g.week_seconds.exp < 0 THEN g.week_seconds.exp ELSE 0)
                  ELSE (IF g.seconds.exp < 0 THEN g.seconds.exp ELSE 0))

\* C3: every Gpst that gpst returns has week * 604800 + week_seconds equal
\* to seconds exactly.
C3_AdditiveDecomposition ==
    \A cr \in CallsOf("gpst") : cr[2].tag = "Ok" => Additive(cr[2].val)

\* C4: num_leaps(x) counts the table entries at or before x, an entry equal
\* to x included, and gpst with the flag set, of the instant whose delta is
\* the k-th entry, adds k seconds.
C4_InclusiveLeapBoundary ==
    /\ \A cr \in CallsOf("num_leaps") : cr[2] = Ok(LeapsElapsed(cr[1].x))
    /\ \A cr \in CallsOf("gpst") : \A k \in LeapIndex :
           (cr[1].leap_seconds /\ cr[1].t = AfterEpoch(LEAP_SECONDS[k], 0))
               => /\ cr[2].tag = "Ok"
                  /\ cr[2].val.seconds = FFromInt(LEAP_SECONDS[k] + k)

\* The Gpst of s whole seconds: seconds s and week floor(s / 604800).
ForwardResult(r, s) ==
    /\ r.tag = "Ok"
    /\ FIsExactly(r.val.seconds, s)
    /\ r.val.week = ZDivFloor(s, ZFromInt(WeekSeconds))

\* C5: gpst of a whole-second instant at or after the GPS Epoch returns the
\* delta from the epoch, plus the leap seconds elapsed by it when the flag
\* is set, as seconds, and floor(seconds / 604800) as week; the GPS Epoch
\* without the flag gives {0, 0, 0} and 2005-01-28T13:30:00Z with the flag
\* gives {790954213, 1307, 480613}.
C5_ForwardResult ==
    \A cr \in CallsOf("gpst") :
        /\ (WholeSecond(cr[1].t) /\ ZLeq(GPS_EPOCH, cr[1].t))
               => ForwardResult(cr[2],
                      ZDivFloor(AdjustedDelta(cr[1].t, cr[1].leap_seconds),
                                ToNanoInt))
        /\ (cr[1].t = GPS_EPOCH /\ ~cr[1].leap_seconds)
               => cr[2] = Ok([seconds |-> FZero, week |-> ZZero,
                              week_seconds |-> FZero])
        /\ (cr[1].t = AfterEpoch(ExampleDelta, 0) /\ cr[1].leap_seconds)
               => cr[2] = Ok([seconds |-> FFromInt(ExampleDelta + 13),
                              week |-> ZFromInt(1307),
                              week_seconds |-> FFromInt(480613)])

\* C6: from_gpst(week, week_seconds, f) returns what from_gpst_seconds
\* returns for T = week * 604800 + week_seconds, and that is the instant T
\* seconds after the GPS Epoch, less the leap seconds elapsed by T when f
\* is set.
C6_InverseResult ==
    \A cr \in CallsOf("from_gpst") :
        /\ cr[2] = from_gpst_seconds(
                       TotalSeconds(cr[1].week, cr[1].week_seconds),
                       cr[1].leap_seconds, overflow_checks)
        /\ cr[2] = Ok(InstantOf(
                       NanosOf(TotalSeconds(cr[1].week, cr[1].week_seconds)),
                       cr[1].leap_seconds))

\* The seconds that the call c of from_gpst_seconds or from_gpst was given.
SecondsOf(c) ==
    IF c.op = "from_gpst" THEN TotalSeconds(c.week, c.week_seconds)
    ELSE c.seconds

\* C7: no call ends in a panic, from_gpst_seconds and from_gpst return an
\* error when the instant they compute does not fit the i64 nanosecond
\* range, and gpst returns an error when the delta of its instant from the
\* GPS Epoch does not.
C7_OverflowReported ==
    \A cr \in Calls :
        /\ cr[2].tag # "Panic"
        /\ (cr[1].op \in {"from_gpst_seconds", "from_gpst"}
            /\ ~InI64(InstantOf(NanosOf(SecondsOf(cr[1])),
                                cr[1].leap_seconds)))
               => cr[2].tag = "Err"
        /\ (cr[1].op = "gpst" /\ ~InI64(ZSub(cr[1].t, GPS_EPOCH)))
               => cr[2].tag = "Err"

\* C8: every Gpst that gpst returns has week >= 0 and
\* 0 <= week_seconds < 604800.
C8_WeekFieldsInRange ==
    \A cr \in CallsOf("gpst") :
        cr[2].tag = "Ok"
            => /\ ~cr[2].val.week.neg
               /\ ~cr[2].val.week_seconds.neg
               /\ FLess(cr[2].val.week_seconds, SECONDS_PER_WEEK)

\* The table has 18 entries, each greater than the one before.
TableIncreasing ==
    /\ Len(LEAP_SECONDS) = 18
    /\ \A i \in LeapIndex : i > 1 => LEAP_SECONDS[i - 1] < LEAP_SECONDS[i]

\* C9: the table has 18 strictly increasing entries; of two queries of
\* num_leaps the one with the smaller argument has the smaller or the same
\* count; and every count is at least 0 and at most 18 seconds.
C9_LeapMonotoneBounded ==
    /\ TableIncreasing
    /\ \A cr \in CallsOf("num_leaps") :
           /\ cr[2].tag = "Ok"
           /\ ZLeq(ZZero, cr[2].val)
           /\ ZLeq(cr[2].val, ZMul(ZFromInt(18), ToNanoInt))
    /\ \A a \in CallsOf("num_leaps"), b \in CallsOf("num_leaps") :
           ZLeq(a[1].x, b[1].x) => ZLeq(a[2].val, b[2].val)

\* Two queries made, the first of a negative timestamp, the second of a
\* later one with more leap seconds counted.
C9_Witness ==
    /\ pc = "returned2"
    /\ call.op = "num_leaps" /\ call2.op = "num_leaps"
    /\ call.x.neg
    /\ ZLess(call.x, call2.x)
    /\ ZLess(ret.val, ret2.val)

\* C10: whole seconds s >= 0 that went through from_gpst_seconds and whose
\* instant went back through gpst with the same flag come back as the
\* seconds of an Ok value.
C10_ReverseRoundTrip ==
    (call.op = "from_gpst_seconds" /\ ~call.seconds.neg
     /\ call.seconds.exp >= 0)
        => /\ ret.tag = "Ok"
           /\ pc = "returned2"
                  => (ret2.tag = "Ok" /\ ret2.val.seconds = call.seconds)
====
